---- MODULE Spec2Model ----
(***************************************************************************)
(* A model of ticket_creator.py: the request/retry layer (make_request),   *)
(* the category navigator (traverse_category) and the orchestration that   *)
(* calls them (main_async, get_user_info, get_workspaces,                  *)
(* fetch_ticket_fields, create_ticket_async, main).                        *)
(***************************************************************************)
EXTENDS Integers, Sequences, FiniteSets, TLC

VARIABLES
    pc,             \* position of main_async ("exited" once the process ended)
    exit_status,    \* process exit status (meaningful when pc = "exited")
    console,        \* user-facing messages printed so far, in order
    bad_inputs,     \* rejected answers to the e-mail prompt so far
    interrupted,    \* whether the operator pressed Ctrl-C
    mr_pc,          \* make_request: "idle", "inflight", "sleeping", "done"
    attempt,        \* make_request: the loop variable of `for attempt in range(MAX_RETRIES)`
    mr_request,     \* make_request: method, endpoint, headers and body of the call
    sleeps,         \* make_request: the delays slept by the current call, in order
    outcomes,       \* make_request: how each attempt of the current call ended, in order
    mr_result,      \* make_request: what the call returned or raised
    issued,         \* endpoints a request has been issued to so far
    last_issued,    \* endpoint of the most recent request issued
    server_tickets, \* POST /tickets requests the server has received and acted on
    email,          \* main_async: email
    user_info,      \* main_async: user_info
    description,    \* main_async: description
    workspaces,     \* main_async: workspaces
    workspace_id,   \* main_async: selected_workspace_id
    category_tree,  \* traverse_category: category_tree
    tpc,            \* traverse_category: "idle", "pick_category", "pick_sub", "pick_item", "returned", "raised"
    options,        \* traverse_category: the options handed to pick
    selected,       \* traverse_category: selected_category / selected_sub_category
    path,           \* traverse_category: path
    priority,       \* main_async: priority
    attachments     \* main_async: attachments

vars == <<pc, exit_status, console, bad_inputs, interrupted, mr_pc, attempt, mr_request, sleeps,
          outcomes, mr_result, issued, last_issued, server_tickets, email,
          user_info, description, workspaces, workspace_id, category_tree, tpc, options,
          selected, path, priority, attachments>>

flow_vars == <<pc, exit_status, console, bad_inputs, interrupted, email, user_info, description,
               workspaces, workspace_id, priority, attachments>>

request_vars == <<mr_pc, attempt, mr_request, sleeps, outcomes, mr_result, issued,
                  last_issued, server_tickets>>

traverse_vars == <<category_tree, tpc, options, selected, path>>

-----------------------------------------------------------------------------
(* Program constants.                                                      *)

MAX_RETRIES == 3

RETRY_DELAY == 2

(* Bounds of the model.                                                    *)

\* top-level categories of a tree
MaxCats == 2

\* sub-categories of one category
MaxSubs == 1

\* item categories of one sub-category
MaxItems == 2

\* rejected e-mail answers before the operator gives a valid one
MaxBadInputs == 1

-----------------------------------------------------------------------------
(* JSON values as Python sees them after response.json().                  *)

Null == [kind |-> "null"]

Str(s) == [kind |-> "str", text |-> s]

Num(n) == [kind |-> "num", n |-> n]

List(elems) == [kind |-> "list", elems |-> elems]

\* a dict keeps insertion order: a sequence of [k, v] entries with distinct keys
Dict(entries) == [kind |-> "dict", entries |-> entries]

\* Python truthiness: `if selected_category`, `if selected_sub_category`
Truthy(v) ==
    CASE v.kind = "null" -> FALSE
      [] v.kind = "str"  -> v.text # ""
      [] v.kind = "num"  -> v.n # 0
      [] v.kind = "list" -> v.elems # <<>>
      [] v.kind = "dict" -> v.entries # <<>>

\* isinstance(v, dict)
IsDict(v) == v.kind = "dict"

\* isinstance(v, list)
IsList(v) == v.kind = "list"

\* list(d.keys())
Keys(d) == [i \in 1..Len(d.entries) |-> d.entries[i].k]

\* d[key]
Get(d, key) == d.entries[CHOOSE i \in 1..Len(d.entries) : d.entries[i].k = key].v

\* path[key] = value
Put(p, key, value) == [x \in DOMAIN p \cup {key} |-> IF x = key THEN value ELSE p[x]]

EmptyPath == <<>>

-----------------------------------------------------------------------------
(* The category trees the navigator is run on.                             *)

CatNames == <<"Hardware", "Software", "Network">>

SubNames == <<"Laptop", "Printer", "Monitor">>

ItemNames == <<"Battery", "Screen", "Keyboard">>

\* values found where an item-category list is expected
ItemLevelValues ==
    {Null, Str("n/a"), Dict(<<>>)}
        \cup {List(SubSeq(ItemNames, 1, n)) : n \in 0..MaxItems}

\* dicts with the keys names[1..n] and values drawn from vals
DictsOver(names, n, vals) ==
    {Dict([i \in 1..n |-> [k |-> names[i], v |-> f[i]]]) : f \in [1..n -> vals]}

\* values found where a sub-category mapping is expected
SubLevelValues ==
    {Null, Str("n/a"), List(<<"Other">>)}
        \cup UNION {DictsOver(SubNames, n, ItemLevelValues) : n \in 0..MaxSubs}

-----------------------------------------------------------------------------
(* traverse_category                                                       *)

\* line 151: `if selected_category and isinstance(selected_category, dict)`
\* and line 153: `if sub_category_options`
DescendsToSub(v) == Truthy(v) /\ IsDict(v) /\ Keys(v) # <<>>

\* variant: the emptiness test left out
DescendsToItemMut(v) == IsList(v)

\* line 160: `if selected_sub_category and isinstance(selected_sub_category, list)
\*            and selected_sub_category`
DescendsToItem(v) == Truthy(v) /\ IsList(v) /\ Truthy(v)

\* lines 141-145: path = {}; category_options = list(category_tree.keys());
\* pick(category_options, ...) is called, whatever the number of options
TraverseCall ==
    /\ pc = "traverse"
    /\ tpc = "idle"
    /\ path' = EmptyPath
    /\ options' = Keys(category_tree)
    /\ selected' = category_tree
    /\ tpc' = "pick_category"
    /\ UNCHANGED <<category_tree, flow_vars, request_vars>>

\* pick with no option to return raises; with options the operator picks one.
\* lines 145-154
PickCategory ==
    /\ tpc = "pick_category"
    /\ \/ /\ options = <<>>
          /\ tpc' = "raised"
          /\ UNCHANGED <<options, selected, path>>
       \/ \E i \in 1..Len(options) :
            LET selected_category_name == options[i]
                selected_category == Get(category_tree, selected_category_name)
            IN  /\ path' = Put(path, "category_name", selected_category_name)
                /\ selected' = selected_category
                /\ IF DescendsToSub(selected_category)
                     THEN /\ options' = Keys(selected_category)
                          /\ tpc' = "pick_sub"
                     ELSE /\ options' = <<>>
                          /\ tpc' = "returned"
    /\ UNCHANGED <<category_tree, flow_vars, request_vars>>

\* lines 154-161
PickSubCategory ==
    /\ tpc = "pick_sub"
    /\ \/ /\ options = <<>>
          /\ tpc' = "raised"
          /\ UNCHANGED <<options, selected, path>>
       \/ \E i \in 1..Len(options) :
            LET selected_sub_category_name == options[i]
                selected_sub_category == Get(selected, selected_sub_category_name)
            IN  /\ path' = Put(path, "sub_category_name", selected_sub_category_name)
                /\ selected' = selected_sub_category
                /\ IF DescendsToItem(selected_sub_category)
                     THEN /\ options' = selected_sub_category.elems
                          /\ tpc' = "pick_item"
                     ELSE /\ options' = <<>>
                          /\ tpc' = "returned"
    /\ UNCHANGED <<category_tree, flow_vars, request_vars>>

\* lines 161-164
PickItemCategory ==
    /\ tpc = "pick_item"
    /\ \/ /\ options = <<>>
          /\ tpc' = "raised"
          /\ UNCHANGED <<options, selected, path>>
       \/ \E i \in 1..Len(options) :
            /\ path' = Put(path, "item_category_name", options[i])
            /\ options' = <<>>
            /\ tpc' = "returned"
            /\ UNCHANGED selected
    /\ UNCHANGED <<category_tree, flow_vars, request_vars>>

-----------------------------------------------------------------------------
(* make_request                                                            *)

NoHeaders == <<>>

\* line 63
DefaultHeaders == [Content_Type |-> "application/json", Accept |-> "application/json"]

NoRequest == [method |-> "", endpoint |-> "", headers |-> NoHeaders, body |-> Null]

NoResult == [kind |-> "none"]

Returned(data) == [kind |-> "return", data |-> data]

Raised(exc, why, status, cause) ==
    [kind |-> "raise", exc |-> exc, why |-> why, status |-> status, cause |-> cause]

\* what a server answers, and how response.json() fares on it: "ok", or
\* "JSONDecodeError" (the text is not JSON), or "ContentTypeError" (the
\* content type is not JSON; a ClientResponseError, hence an
\* aiohttp.ClientError)
Statuses == {200, 302, 400, 401, 404, 500}

Decodes == {"ok", "JSONDecodeError", "ContentTypeError"}

\* variant: only the 5xx statuses fall in the last branch
ClassifyMut(status) ==
    CASE status = 404 -> "not_found"
      [] status = 401 -> "auth"
      [] status >= 500 -> "api"
      [] OTHER -> ""

\* lines 72-80: the error kind of a status, "" when the status is no error
Classify(status) ==
    CASE status = 404 -> "not_found"
      [] status = 401 -> "auth"
      [] status >= 400 -> "api"
      [] OTHER -> ""

\* line 89: `if attempt == MAX_RETRIES - 1`
LastAttempt(a) == a = MAX_RETRIES - 1

\* variant: the delay taken from the loop variable itself
DelayAfterMut(a) == RETRY_DELAY * a

\* line 91: `RETRY_DELAY * (attempt + 1)`
DelayAfter(a) == RETRY_DELAY * (a + 1)

\* lines 84-86 and 88: which failures of response.json() the inner handler
\* turns into the decode error; a ContentTypeError is not a JSONDecodeError
CaughtAsDecodeError(decode) == decode = "JSONDecodeError"

\* the server acts on a POST /tickets it received and did not reject
ServerActs(req, received, status) ==
    IF req.method = "POST" /\ req.endpoint = "tickets" /\ received /\ status < 400
      THEN server_tickets + 1
      ELSE server_tickets

\* lines 60-68: the headers default, the auth, and the first attempt issued
MakeRequest(method, endpoint, kw_headers, body) ==
    /\ mr_request' = [method |-> method, endpoint |-> endpoint,
                      headers |-> IF kw_headers = NoHeaders THEN DefaultHeaders
                                                            ELSE kw_headers,
                      body |-> body]
    /\ attempt' = 0
    /\ sleeps' = <<>>
    /\ outcomes' = <<>>
    /\ mr_result' = NoResult
    /\ mr_pc' = "inflight"
    /\ issued' = issued \cup {endpoint}
    /\ last_issued' = endpoint
    /\ UNCHANGED server_tickets

\* lines 88-91: `except aiohttp.ClientError`
ClientErrorCaught(cause, status) ==
    /\ outcomes' = Append(outcomes, [what |-> cause, status |-> status])
    /\ IF LastAttempt(attempt)
         THEN /\ mr_result' = Raised("APIError", "exhausted", 0, cause)
              /\ mr_pc' = "done"
              /\ UNCHANGED sleeps
         ELSE /\ sleeps' = Append(sleeps, DelayAfter(attempt))
              /\ mr_pc' = "sleeping"
              /\ UNCHANGED mr_result
    /\ UNCHANGED <<attempt, mr_request, issued, last_issued>>

\* the call ends: it returns or raises to its caller
CallEnds(what, status, result) ==
    /\ outcomes' = Append(outcomes, [what |-> what, status |-> status])
    /\ mr_result' = result
    /\ mr_pc' = "done"
    /\ UNCHANGED <<attempt, mr_request, sleeps, issued, last_issued>>

\* lines 68 and 88: session.request (or reading the response) raises an
\* aiohttp.ClientError, before or after the server received the request
TransportFault ==
    /\ mr_pc = "inflight"
    /\ \E received \in BOOLEAN :
         server_tickets' = ServerActs(mr_request, received, 200)
    /\ ClientErrorCaught("ClientError", 0)
    /\ UNCHANGED <<flow_vars, traverse_vars>>

\* lines 66-68 after line 91: the sleep is over, the next attempt is issued
RetryAfterSleep ==
    /\ mr_pc = "sleeping"
    /\ attempt' = attempt + 1
    /\ mr_pc' = "inflight"
    /\ last_issued' = mr_request.endpoint
    /\ UNCHANGED <<mr_request, sleeps, outcomes, mr_result, issued, server_tickets>>
    /\ UNCHANGED <<flow_vars, traverse_vars>>

\* lines 68-80: a response with an error status
ErrorResponse ==
    /\ mr_pc = "inflight"
    /\ \E status \in Statuses :
         /\ Classify(status) # ""
         /\ CallEnds("HTTPError", status, Raised("APIError", Classify(status), status, ""))
    /\ UNCHANGED server_tickets
    /\ UNCHANGED <<flow_vars, traverse_vars>>

\* lines 68-70 and 88: an exception that is no aiohttp.ClientError leaves
\* make_request as it is
OtherException ==
    /\ mr_pc = "inflight"
    /\ \E received \in BOOLEAN :
         server_tickets' = ServerActs(mr_request, received, 200)
    /\ CallEnds("Exception", 0, Raised("Exception", "unclassified", 0, ""))
    /\ UNCHANGED <<flow_vars, traverse_vars>>

\* exceptions that are an aiohttp.ClientError
IsClientError(exc) == exc \in {"ClientError", "ContentTypeError"}

-----------------------------------------------------------------------------
(* What the server holds.                                                  *)

Entry(k, v) == [k |-> k, v |-> v]

\* `key in d`
Has(d, key) == \E i \in 1..Len(d.entries) : d.entries[i].k = key

\* d.get(key, default)
GetOr(d, key, default) == IF Has(d, key) THEN Get(d, key) ELSE default

TheUser ==
    Dict(<<Entry("id", Num(7)), Entry("first_name", Str("Sam")),
           Entry("last_name", Str("Lee"))>>)

TheWorkspaces ==
    List(<<Dict(<<Entry("id", Num(2)), Entry("name", Str("IT"))>>),
           Dict(<<Entry("id", Num(3)), Entry("name", Str("HR"))>>)>>)

\* the category trees a server returns in the flow
FlowTrees ==
    { Dict(<<>>),
      Dict(<<Entry("Hardware", Null)>>),
      Dict(<<Entry("Hardware", Dict(<<Entry("Laptop", List(<<"Battery">>))>>))>>),
      Dict(<<Entry("Hardware", Dict(<<Entry("Laptop", Null)>>)),
             Entry("Software", Str("n/a"))>>) }

CategoryField(tree) ==
    Dict(<<Entry("name", Str("category")), Entry("choices", tree)>>)

\* the JSON bodies an endpoint answers with
JsonBodies(endpoint) ==
    CASE endpoint = "requesters" ->
           {Dict(<<Entry("requesters", List(<<TheUser>>))>>),
            Dict(<<Entry("requesters", List(<<>>))>>)}
      [] endpoint = "agents" ->
           {Dict(<<Entry("agents", List(<<TheUser>>))>>),
            Dict(<<Entry("agents", List(<<>>))>>)}
      [] endpoint = "workspaces" ->
           {Dict(<<Entry("workspaces", TheWorkspaces)>>),
            Dict(<<Entry("workspaces", List(<<>>))>>),
            Dict(<<Entry("message", Str("none"))>>)}
      [] endpoint = "ticket_fields" ->
           {Dict(<<Entry("ticket_fields", List(<<CategoryField(t)>>))>>) : t \in FlowTrees}
             \cup {Dict(<<Entry("ticket_fields", List(<<>>))>>)}
      [] endpoint = "tickets" ->
           {Dict(<<Entry("ticket", Dict(<<Entry("id", Num(101))>>))>>),
            Dict(<<Entry("message", Str("queued"))>>)}

\* lines 68-70 and 82-91: a response with status < 400; response.json()
\* returns the body, or raises
SuccessResponse ==
    /\ mr_pc = "inflight"
    /\ \E status \in Statuses :
         /\ Classify(status) = ""
         /\ server_tickets' = ServerActs(mr_request, TRUE, status)
         /\ \E decode \in Decodes :
              CASE decode = "ok" ->
                     \E data \in JsonBodies(mr_request.endpoint) :
                         CallEnds("OK", status, Returned(data))
                [] CaughtAsDecodeError(decode) ->
                     CallEnds(decode, status, Raised("APIError", "decode", status, decode))
                [] IsClientError(decode) ->
                     ClientErrorCaught(decode, status)
                [] OTHER ->
                     CallEnds(decode, status, Raised("Exception", "unclassified", status, decode))
    /\ UNCHANGED <<flow_vars, traverse_vars>>

-----------------------------------------------------------------------------
(* main_async and the functions it calls                                   *)

data_vars == <<email, user_info, description, workspaces, workspace_id,
               priority, attachments>>

Red(text) == [level |-> "red", text |-> text]

Yellow(text) == [level |-> "yellow", text |-> text]

Green(text) == [level |-> "green", text |-> text]

\* sys.exit(status) after printing msgs
Exit(status, msgs) ==
    /\ pc' = "exited"
    /\ exit_status' = status
    /\ console' = console \o msgs

\* variant: the APIError handler exits with status 0
HandlerMut(exc) ==
    CASE exc = "KeyboardInterrupt" ->
           [status |-> 0, msg |-> Red("Operation cancelled by user.")]
      [] exc = "APIError" -> [status |-> 0, msg |-> Red("API Error")]
      [] OTHER -> [status |-> 1, msg |-> Red("Unexpected Error")]

\* main_async lines 362-372: the handler an exception class reaches
Handler(exc) ==
    CASE exc = "KeyboardInterrupt" ->
           [status |-> 0, msg |-> Red("Operation cancelled by user.")]
      [] exc = "APIError" -> [status |-> 1, msg |-> Red("API Error")]
      [] OTHER -> [status |-> 1, msg |-> Red("Unexpected Error")]

\* an exception reaches the handlers of main_async after msgs were printed
RaiseToTop(exc, msgs) == Exit(Handler(exc).status, Append(msgs, Handler(exc).msg))

\* the answers an operator gives at the e-mail prompt; validate_email
\* raises on the ones that are no address
EmailAnswers == {"sam.lee@example.com", "sam.lee"}

IsValidEmail(answer) == \E i \in 2..(Len(answer) - 1) : SubSeq(answer, i, i) = "@"

\* get_user_info lines 241-245: the headers it passes
JsonHeaders == [Content_Type |-> "application/json", Accept |-> "application/json"]

\* main_async line 295 (validate_user_input lines 222-228) and get_user_info
\* lines 232-247
PromptEmail ==
    /\ pc = "email"
    /\ \E answer \in EmailAnswers :
         IF IsValidEmail(answer)
           THEN /\ email' = answer
                /\ pc' = "requester"
                /\ MakeRequest("GET", "requesters", JsonHeaders, Null)
                /\ UNCHANGED <<exit_status, console, bad_inputs>>
           ELSE /\ bad_inputs < MaxBadInputs
                /\ bad_inputs' = bad_inputs + 1
                /\ console' = Append(console, Red("The email address is not valid."))
                /\ UNCHANGED <<pc, exit_status, email, request_vars>>
    /\ UNCHANGED <<interrupted, user_info, description, workspaces, workspace_id,
                   priority, attachments, traverse_vars>>

\* variant: the agents key tested in both lookups
FoundInMut(data, key) ==
    Truthy(data) /\ IsDict(data) /\ Has(data, "agents") /\ Truthy(Get(data, "agents"))

\* get_user_info lines 250 and 264:
\* `data and isinstance(data, dict) and key in data and data[key]`
FoundIn(data, key) == Truthy(data) /\ IsDict(data) /\ Has(data, key) /\ Truthy(Get(data, key))

\* get_user_info lines 251-257 and 265-271
UserFrom(data, key) ==
    LET user == Get(data, key).elems[1]
    IN  [first_name |-> GetOr(user, "first_name", Str("")).text,
         last_name |-> GetOr(user, "last_name", Str("")).text,
         email |-> email,
         id |-> GetOr(user, "id", Null)]

\* main_async lines 298-305, once get_user_info returned user
UserResolved(user) ==
    /\ user_info' = user
    /\ console' = Append(console, Green("Creating ticket for"))
    /\ pc' = "description"
    /\ mr_pc' = "idle"
    /\ UNCHANGED <<exit_status, attempt, mr_request, sleeps, outcomes, mr_result,
                   issued, last_issued, server_tickets>>

\* main_async lines 298-300, once get_user_info returned None after msgs
UserNotResolved(msgs) ==
    /\ Exit(1, Append(msgs, Red("Unable to find user in Freshservice.")))
    /\ UNCHANGED <<user_info, request_vars>>

\* get_user_info lines 247-261 and 276-279, main_async lines 296-307
AfterRequesterLookup ==
    /\ pc = "requester"
    /\ mr_pc = "done"
    /\ CASE mr_result.kind = "raise" ->
              UserNotResolved(<<Red("Error looking up user")>>)
         [] mr_result.kind = "return" /\ FoundIn(mr_result.data, "requesters") ->
              UserResolved(UserFrom(mr_result.data, "requesters"))
         [] OTHER ->
              /\ pc' = "agent"
              /\ MakeRequest("GET", "agents", JsonHeaders, Null)
              /\ UNCHANGED <<exit_status, console, user_info>>
    /\ UNCHANGED <<bad_inputs, interrupted, email, description, workspaces,
                   workspace_id, priority, attachments, traverse_vars>>

\* get_user_info lines 261-279, main_async lines 296-307
AfterAgentLookup ==
    /\ pc = "agent"
    /\ mr_pc = "done"
    /\ CASE mr_result.kind = "raise" ->
              UserNotResolved(<<Red("Error looking up user")>>)
         [] mr_result.kind = "return" /\ FoundIn(mr_result.data, "agents") ->
              UserResolved(UserFrom(mr_result.data, "agents"))
         [] OTHER ->
              UserNotResolved(<<Yellow("Warning: No user found in either requesters or agents")>>)
    /\ UNCHANGED <<bad_inputs, interrupted, email, description, workspaces,
                   workspace_id, priority, attachments, traverse_vars>>

\* what the operator types as the description: short, and longer than 30
Descriptions == {"Screen flickers", "The laptop screen flickers whenever the charger is plugged in"}

\* main_async lines 307-309 and get_workspaces lines 94-103
PromptDescription ==
    /\ pc = "description"
    /\ \E d \in Descriptions : description' = d
    /\ pc' = "workspaces"
    /\ MakeRequest("GET", "workspaces", NoHeaders, Null)
    /\ UNCHANGED <<exit_status, console, bad_inputs, interrupted, email, user_info,
                   workspaces, workspace_id, priority, attachments, traverse_vars>>

\* get_workspaces line 109
WorkspaceOf(ws) == [id |-> Get(ws, "id").n, name |-> Get(ws, "name").text]

\* get_workspaces lines 103-112 and main_async lines 309-315
AfterWorkspaces ==
    /\ pc = "workspaces"
    /\ mr_pc = "done"
    /\ CASE mr_result.kind = "raise" ->
              \* line 110 catches every Exception and raises an APIError
              /\ RaiseToTop("APIError", <<>>)
              /\ UNCHANGED <<workspaces, mr_pc>>
         [] ~Truthy(mr_result.data) \/ ~Has(mr_result.data, "workspaces") ->
              /\ RaiseToTop("APIError", <<>>)
              /\ UNCHANGED <<workspaces, mr_pc>>
         [] ~Truthy(Get(mr_result.data, "workspaces")) ->
              /\ Exit(1, <<Red("No workspaces found!")>>)
              /\ UNCHANGED <<workspaces, mr_pc>>
         [] OTHER ->
              /\ workspaces' = [i \in 1..Len(Get(mr_result.data, "workspaces").elems) |->
                                  WorkspaceOf(Get(mr_result.data, "workspaces").elems[i])]
              /\ pc' = "pick_workspace"
              /\ mr_pc' = "idle"
              /\ UNCHANGED <<exit_status, console>>
    /\ UNCHANGED <<bad_inputs, interrupted, email, user_info, description,
                   workspace_id, priority, attachments, attempt, mr_request, sleeps, outcomes, mr_result,
                   issued, last_issued, server_tickets, traverse_vars>>

\* main_async lines 314-320 and fetch_ticket_fields lines 115-123: the option
\* picked names the workspace whose id is read back from it
PickWorkspace ==
    /\ pc = "pick_workspace"
    /\ \E i \in 1..Len(workspaces) : workspace_id' = workspaces[i].id
    /\ pc' = "ticket_fields"
    /\ MakeRequest("GET", "ticket_fields", JsonHeaders, Null)
    /\ UNCHANGED <<exit_status, console, bad_inputs, interrupted, email, user_info,
                   description, workspaces, priority, attachments, traverse_vars>>

\* extract_choices lines 130-134
RECURSIVE extract_choices(_)
extract_choices(ticket_fields) ==
    IF ticket_fields = <<>> THEN Dict(<<>>)
    ELSE IF GetOr(Head(ticket_fields), "name", Null) = Str("category")
           THEN GetOr(Head(ticket_fields), "choices", Dict(<<>>))
           ELSE extract_choices(Tail(ticket_fields))

\* fetch_ticket_fields lines 123-124, main_async lines 320-328
\* (build_category_structure, lines 136-138, returns its argument)
AfterTicketFields ==
    /\ pc = "ticket_fields"
    /\ mr_pc = "done"
    /\ IF mr_result.kind = "raise"
         THEN /\ RaiseToTop(mr_result.exc, <<>>)
              /\ UNCHANGED <<category_tree, mr_pc>>
         ELSE /\ category_tree' =
                    extract_choices(GetOr(mr_result.data, "ticket_fields", List(<<>>)).elems)
              /\ pc' = "traverse"
              /\ mr_pc' = "idle"
              /\ UNCHANGED <<exit_status, console>>
    /\ UNCHANGED <<bad_inputs, interrupted, data_vars, attempt, mr_request, sleeps,
                   outcomes, mr_result, issued, last_issued, server_tickets, tpc,
                   options, selected, path>>

\* main_async lines 328-332, and 369-372 when traverse_category raised
AfterTraverse ==
    /\ pc = "traverse"
    /\ tpc \in {"returned", "raised"}
    /\ CASE tpc = "raised" -> RaiseToTop("ValueError", <<>>)
         [] tpc = "returned" /\ path = EmptyPath -> Exit(1, <<Red("No category selected!")>>)
         [] tpc = "returned" /\ path # EmptyPath ->
              /\ pc' = "priority"
              /\ UNCHANGED <<exit_status, console>>
    /\ UNCHANGED <<bad_inputs, interrupted, data_vars, request_vars, traverse_vars>>

PriorityOptions == <<"Low", "Medium", "High", "Urgent">>

\* list.index(x), counted from 0
IndexOf(list, x) == (CHOOSE j \in 1..Len(list) : list[j] = x) - 1

\* main_async lines 334-336: priority_options.index(priority_selection) + 1
PickPriority ==
    /\ pc = "priority"
    /\ \E priority_selection \in {PriorityOptions[i] : i \in 1..Len(PriorityOptions)} :
         priority' = IndexOf(PriorityOptions, priority_selection) + 1
    /\ pc' = "attach"
    /\ UNCHANGED <<exit_status, console, bad_inputs, interrupted, email, user_info,
                   description, workspaces, workspace_id, attachments, request_vars,
                   traverse_vars>>

\* main_async lines 338-342: no list when the answer is not "y", else the
\* stripped pieces of the line typed (a blank line gives one empty path)
AttachmentAnswers ==
    {<<>>, <<"">>, <<"docs/report.pdf">>, <<"docs/report.pdf", "missing.txt">>}

\* the paths os.path.isfile finds
ExistingFiles == {"docs/report.pdf"}

\* os.path.basename
Basename(p) ==
    LET slashes == {i \in 1..Len(p) : SubSeq(p, i, i) = "/"}
    IN  IF slashes = {} THEN p
        ELSE SubSeq(p, (CHOOSE i \in slashes : \A j \in slashes : j <= i) + 1, Len(p))

\* create_ticket_async line 178
Summary(first_name, last_name, d) ==
    "Request for " \o first_name \o " " \o last_name \o ": "
        \o (IF Len(d) > 30 THEN SubSeq(d, 1, 30) \o "..." ELSE d)

\* main_async lines 349-351: category_path['category_name'],
\* category_path.get('sub_category_name', ''), .get('item_category_name', '')
PathGet(p, key, default) == IF key \in DOMAIN p THEN p[key] ELSE default

\* variant: the priority taken as the index counted from 0
TicketDataMut(first_name, last_name, mail, d, category, sub_category, item_category, prio, ws_id) ==
    [email |-> mail,
     subject |-> Summary(first_name, last_name, d),
     description |-> d,
     status |-> 2,
     priority |-> prio - 1,
     category |-> category,
     sub_category |-> sub_category,
     item_category |-> item_category,
     workspace_id |-> ws_id,
     source |-> 2]

\* create_ticket_async lines 180-191
TicketData(first_name, last_name, mail, d, category, sub_category, item_category, prio, ws_id) ==
    [email |-> mail,
     subject |-> Summary(first_name, last_name, d),
     description |-> d,
     status |-> 2,
     priority |-> prio,
     category |-> category,
     sub_category |-> sub_category,
     item_category |-> item_category,
     workspace_id |-> ws_id,
     source |-> 2]

\* json.dumps: the text of an object
JsonDumps(obj) == [json_text_of |-> obj]

\* create_ticket_async lines 206-212: one part per path that is a file
RECURSIVE FileParts(_)
FileParts(paths) ==
    IF paths = <<>> THEN <<>>
    ELSE IF Head(paths) \in ExistingFiles
           THEN <<[name |-> "attachments[]", filename |-> Basename(Head(paths)),
                   file |-> Head(paths)]>> \o FileParts(Tail(paths))
           ELSE FileParts(Tail(paths))

\* create_ticket_async line 212: one warning per path that is no file
RECURSIVE FileWarnings(_)
FileWarnings(paths) ==
    IF paths = <<>> THEN <<>>
    ELSE IF Head(paths) \in ExistingFiles
           THEN FileWarnings(Tail(paths))
           ELSE <<Yellow("Warning: Attachment not found.")>> \o FileWarnings(Tail(paths))

\* create_ticket_async lines 204-205
FormData(ticket_data, paths) ==
    [enc |-> "multipart",
     fields |-> <<[name |-> "input_data", value |-> JsonDumps(ticket_data)]>>
                    \o FileParts(paths)]

\* main_async lines 338-355 and create_ticket_async lines 178-216
PromptAttachments ==
    /\ pc = "attach"
    /\ \E answer \in AttachmentAnswers :
         LET ticket_data ==
                 TicketData(user_info.first_name, user_info.last_name, email, description,
                            path["category_name"],
                            PathGet(path, "sub_category_name", ""),
                            PathGet(path, "item_category_name", ""),
                            priority, workspace_id)
         IN  /\ attachments' = answer
             /\ IF answer # <<>>
                  THEN /\ console' = console \o FileWarnings(answer)
                       /\ MakeRequest("POST", "tickets", NoHeaders,
                                      FormData(ticket_data, answer))
                  ELSE /\ console' = console
                       /\ MakeRequest("POST", "tickets",
                                      [Content_Type |-> "application/json"],
                                      [enc |-> "json", json |-> ticket_data])
    /\ pc' = "create"
    /\ UNCHANGED <<exit_status, bad_inputs, interrupted, email, user_info, description,
                   workspaces, workspace_id, priority, traverse_vars>>

\* create_ticket_async lines 213-220 and main_async lines 357-360; leaving
\* main_async ends the process with status 0
AfterCreate ==
    /\ pc = "create"
    /\ mr_pc = "done"
    /\ CASE mr_result.kind = "raise" -> RaiseToTop(mr_result.exc, <<>>)
         [] mr_result.kind = "return" /\ Has(mr_result.data, "ticket") ->
              Exit(0, <<Green("Ticket created successfully!")>>)
         [] OTHER -> Exit(0, <<Red("Error creating ticket")>>)
    /\ UNCHANGED <<bad_inputs, interrupted, data_vars, request_vars, traverse_vars>>

\* the steps at which the program waits for the operator
AtPrompt ==
    \/ pc \in {"email", "description", "pick_workspace", "priority", "attach"}
    \/ pc = "traverse" /\ tpc \in {"pick_category", "pick_sub", "pick_item"}

\* the steps at which main_async is suspended in the event loop
AtAwait == mr_pc \in {"inflight", "sleeping"}

\* Ctrl-C. At a prompt input() or pick() raises KeyboardInterrupt inside
\* main_async: validate_user_input (line 227), get_user_info (line 276),
\* get_workspaces (line 110) and create_ticket_async (line 218) catch
\* Exception only, so it reaches line 362. While main_async is suspended in
\* an await the interrupt reaches the event loop: asyncio.run (line 375)
\* ends the task and raises KeyboardInterrupt in main, which has no handler,
\* and the interpreter ends with a traceback and status 130; it reaches
\* line 362 only if it arrives while code of main_async is running.
Interrupt ==
    /\ pc # "exited"
    /\ interrupted' = TRUE
    /\ \/ /\ AtPrompt
          /\ RaiseToTop("KeyboardInterrupt", <<>>)
          /\ UNCHANGED mr_pc
       \/ /\ AtAwait
          /\ mr_pc' = "cancelled"
          /\ \/ RaiseToTop("KeyboardInterrupt", <<>>)
             \/ Exit(130, <<>>)
    /\ UNCHANGED <<bad_inputs, data_vars, attempt, mr_request, sleeps, outcomes,
                   mr_result, issued, last_issued, server_tickets, traverse_vars>>

-----------------------------------------------------------------------------
(* The program: the configuration checks of lines 288-292 passed, and      *)
(* main_async is at the e-mail prompt of line 295.                         *)

Init ==
    /\ pc = "email"
    /\ exit_status = 0
    /\ console = <<>>
    /\ bad_inputs = 0
    /\ interrupted = FALSE
    /\ mr_pc = "idle"
    /\ attempt = 0
    /\ mr_request = NoRequest
    /\ sleeps = <<>>
    /\ outcomes = <<>>
    /\ mr_result = NoResult
    /\ issued = {}
    /\ last_issued = ""
    /\ server_tickets = 0
    /\ email = ""
    /\ user_info = Null
    /\ description = ""
    /\ workspaces = <<>>
    /\ workspace_id = 0
    /\ category_tree = Dict(<<>>)
    /\ tpc = "idle"
    /\ options = <<>>
    /\ selected = Null
    /\ path = EmptyPath
    /\ priority = 0
    /\ attachments = <<>>

Next ==
    \/ PromptEmail
    \/ TransportFault
    \/ RetryAfterSleep
    \/ ErrorResponse
    \/ SuccessResponse
    \/ OtherException
    \/ AfterRequesterLookup
    \/ AfterAgentLookup
    \/ PromptDescription
    \/ AfterWorkspaces
    \/ PickWorkspace
    \/ AfterTicketFields
    \/ TraverseCall
    \/ PickCategory
    \/ PickSubCategory
    \/ PickItemCategory
    \/ AfterTraverse
    \/ PickPriority
    \/ PromptAttachments
    \/ AfterCreate
    \/ Interrupt

Spec == Init /\ [][Next]_vars

-----------------------------------------------------------------------------
(* The navigator on its own: every tree within the bounds, every chooser.  *)

InitTraverse ==
    /\ pc = "traverse"
    /\ exit_status = 0
    /\ console = <<>>
    /\ bad_inputs = 0
    /\ interrupted = FALSE
    /\ mr_pc = "idle"
    /\ attempt = 0
    /\ mr_request = NoRequest
    /\ sleeps = <<>>
    /\ outcomes = <<>>
    /\ mr_result = NoResult
    /\ issued = {}
    /\ last_issued = ""
    /\ server_tickets = 0
    /\ email = ""
    /\ user_info = Null
    /\ description = ""
    /\ workspaces = <<>>
    /\ workspace_id = 0
    /\ \E n \in 0..MaxCats : \E f \in [1..n -> SubLevelValues] :
            category_tree = Dict([i \in 1..n |-> [k |-> CatNames[i], v |-> f[i]]])
    /\ tpc = "idle"
    /\ options = <<>>
    /\ selected = Null
    /\ path = EmptyPath
    /\ priority = 0
    /\ attachments = <<>>

NextTraverse ==
    \/ TraverseCall
    \/ PickCategory
    \/ PickSubCategory
    \/ PickItemCategory

SpecTraverse == InitTraverse /\ [][NextTraverse]_vars

-----------------------------------------------------------------------------
(* Properties.                                                             *)

\* the call has returned or raised
CallEnded == mr_result.kind # "none"

\* every attempt of the current call ended in a transport fault
AllTransportFaults ==
    /\ outcomes # <<>>
    /\ \A i \in 1..Len(outcomes) : outcomes[i].what = "ClientError"

\* C1: a call of make_request whose attempts all end in a transport fault
\* issues the request exactly MAX_RETRIES times and then raises the
\* exhaustion error carrying the last cause; it sleeps RETRY_DELAY * n
\* between attempt n and attempt n + 1 and does not sleep after the last.
C1_TransportFaultsExhaustRetries ==
    AllTransportFaults =>
        /\ Len(outcomes) <= MAX_RETRIES
        /\ CallEnded <=> Len(outcomes) = MAX_RETRIES
        /\ CallEnded =>
              /\ attempt + 1 = MAX_RETRIES
              /\ mr_result = Raised("APIError", "exhausted", 0, "ClientError")
              /\ Len(sleeps) = MAX_RETRIES - 1
        /\ ~CallEnded => Len(sleeps) = Len(outcomes)
        /\ \A n \in 1..Len(sleeps) : sleeps[n] = RETRY_DELAY * n

C1_Witness ==
    /\ AllTransportFaults
    /\ CallEnded
    /\ Len(outcomes) = MAX_RETRIES
    /\ sleeps = <<RETRY_DELAY, RETRY_DELAY * 2>>

\* the error kind the mapping gives a status >= 400
KindOfStatus(status) ==
    IF status = 404 THEN "not_found" ELSE IF status = 401 THEN "auth" ELSE "api"

\* C2: a response with status >= 400, on whichever attempt, ends the call at
\* once with the APIError of the mapped kind (404 not-found, 401
\* authentication, else API error carrying the status); no further request
\* is issued and no retry delay is taken for it.
C2_ErrorStatusFailsWithoutRetry ==
    \A i \in 1..Len(outcomes) :
        outcomes[i].status >= 400 =>
            /\ i = Len(outcomes)
            /\ mr_pc = "done"
            /\ mr_result =
                   Raised("APIError", KindOfStatus(outcomes[i].status), outcomes[i].status, "")
            /\ attempt = i - 1
            /\ Len(sleeps) = i - 1

C2_Witness ==
    /\ Len(outcomes) = 2
    /\ outcomes[1].what = "ClientError"
    /\ outcomes[2].status = 500
    /\ mr_result = Raised("APIError", "api", 500, "")

\* C3: POST /tickets is the last request of a run and reaches the server at
\* most once, so that no run leaves more than one ticket on the server, also
\* when the transport fails after the request was sent.
C3_TicketCreationIsSingleShot ==
    /\ ("tickets" \in issued => last_issued = "tickets")
    /\ server_tickets <= 1

\* C4: a response with status < 400 whose body response.json() cannot
\* decode, for whatever reason, ends the call on that response with the
\* decode error: no retry, no exhaustion error, no unclassified exception.
C4_UndecodableBodyFailsWithDecodeError ==
    \A i \in 1..Len(outcomes) :
        outcomes[i].what \in {"JSONDecodeError", "ContentTypeError"} =>
            /\ i = Len(outcomes)
            /\ mr_result.kind = "raise"
            /\ mr_result.exc = "APIError"
            /\ mr_result.why = "decode"
            /\ Len(sleeps) = i - 1

KeySet(d) == {d.entries[i].k : i \in 1..Len(d.entries)}

ElemSet(l) == {l.elems[i] : i \in 1..Len(l.elems)}

\* C5: on a non-empty tree traverse_category never raises, and the path it
\* returns has category_name among the top-level keys, sub_category_name
\* exactly when the chosen category's value is a non-empty mapping (then one
\* of its keys), and item_category_name exactly when sub_category_name is
\* there and the chosen sub-category's value is a non-empty sequence (then
\* one of its elements).
C5_TraverseReturnsPathOfTree ==
    category_tree.entries # <<>> =>
        /\ tpc # "raised"
        /\ tpc = "returned" =>
              /\ DOMAIN path \subseteq
                     {"category_name", "sub_category_name", "item_category_name"}
              /\ "category_name" \in DOMAIN path
              /\ path["category_name"] \in KeySet(category_tree)
              /\ LET cv == Get(category_tree, path["category_name"])
                     has_sub == "sub_category_name" \in DOMAIN path
                     has_item == "item_category_name" \in DOMAIN path
                 IN  /\ has_sub <=> (cv.kind = "dict" /\ Len(cv.entries) > 0)
                     /\ has_sub => path["sub_category_name"] \in KeySet(cv)
                     /\ has_item => has_sub
                     /\ has_sub =>
                          LET sv == Get(cv, path["sub_category_name"])
                          IN  /\ has_item <=> (sv.kind = "list" /\ Len(sv.elems) > 0)
                              /\ has_item => path["item_category_name"] \in ElemSet(sv)

C5_Witness ==
    /\ tpc = "returned"
    /\ Len(category_tree.entries) = MaxCats
    /\ DOMAIN path = {"category_name", "sub_category_name", "item_category_name"}
    /\ path["category_name"] = CatNames[MaxCats]

\* C6: on an empty mapping traverse_category returns an empty path: it does
\* not raise and does not ask for a pick among zero options.
C6_EmptyTreeShortCircuits ==
    category_tree.entries = <<>> =>
        /\ tpc # "raised"
        /\ ~(tpc = "pick_category" /\ options = <<>>)
        /\ tpc = "returned" => path = EmptyPath

TicketKeys ==
    {"email", "subject", "description", "status", "priority", "category",
     "sub_category", "item_category", "workspace_id", "source"}

\* the ticket object a request to /tickets carries
PayloadOf(body) ==
    IF body.enc = "json" THEN body.json ELSE body.fields[1].value.json_text_of

\* C7: the payload of a ticket submission has exactly the ten keys, status 2,
\* source 2 and a priority in 1..4; without attachments it is the JSON body,
\* with attachments it is the multipart field input_data, followed by one
\* attachments[] part per attached file.
C7_TicketPayload ==
    mr_request.endpoint = "tickets" =>
        LET body == mr_request.body
            td == PayloadOf(body)
        IN  /\ mr_request.method = "POST"
            /\ DOMAIN td = TicketKeys
            /\ td.status = 2
            /\ td.source = 2
            /\ td.priority \in 1..4
            /\ PriorityOptions[td.priority] \in {"Low", "Medium", "High", "Urgent"}
            /\ td.priority = priority
            /\ td.email = email
            /\ td.description = description
            /\ td.workspace_id = workspace_id
            /\ td.category = path["category_name"]
            /\ attachments = <<>> => body = [enc |-> "json", json |-> td]
            /\ attachments # <<>> =>
                  /\ body.enc = "multipart"
                  /\ body.fields[1] = [name |-> "input_data", value |-> JsonDumps(td)]
                  /\ \A i \in 2..Len(body.fields) :
                         /\ body.fields[i].name = "attachments[]"
                         /\ body.fields[i].file \in ExistingFiles
                  /\ \A j \in 1..Len(attachments) :
                         attachments[j] \in ExistingFiles =>
                             Cardinality({i \in 2..Len(body.fields) :
                                             body.fields[i].file = attachments[j]}) = 1

C7_Witness ==
    /\ mr_request.endpoint = "tickets"
    /\ Len(attachments) = 2
    /\ Len(mr_request.body.fields) = 2
    /\ PayloadOf(mr_request.body).priority = 4
    /\ PayloadOf(mr_request.body).item_category = "Battery"

\* the requester lookup returned, and returned no requester
RequesterLookupFoundNone ==
    /\ pc = "requester"
    /\ mr_pc = "done"
    /\ mr_result.kind = "return"
    /\ \/ ~Has(mr_result.data, "requesters")
       \/ Get(mr_result.data, "requesters").elems = <<>>

\* the lookups are over and gave no user
LookupsGaveNoUser ==
    \/ pc = "requester" /\ mr_pc = "done" /\ mr_result.kind = "raise"
    \/ /\ pc = "agent"
       /\ mr_pc = "done"
       /\ \/ mr_result.kind = "raise"
          \/ ~Has(mr_result.data, "agents")
          \/ Get(mr_result.data, "agents").elems = <<>>

\* C8: GET /agents is issued only in the step after GET /requesters returned
\* without a requester (so never once a requester was found); when neither
\* lookup gives a user the program exits with status 1 and issues no further
\* request; the later endpoints are queried only with a user resolved.
C8_UserResolutionOrder ==
    [][ /\ ("agents" \in issued' /\ "agents" \notin issued) => RequesterLookupFoundNone
        /\ LookupsGaveNoUser =>
              /\ pc' = "exited"
              /\ exit_status' = 1
              /\ issued' = issued
              /\ mr_pc' = "done"
        /\ (issued' \cap {"workspaces", "ticket_fields", "tickets"} # {}) =>
              /\ user_info' # Null
              /\ "requesters" \in issued'
      ]_vars

C8_Witness ==
    /\ pc = "exited"
    /\ exit_status = 1
    /\ issued = {"requesters", "agents"}
    /\ mr_result.kind = "return"
    /\ user_info = Null

\* messages that report that the run failed
FailureTexts ==
    {"Error looking up user", "Unable to find user in Freshservice.", "API Error",
     "Unexpected Error", "No workspaces found!", "No category selected!",
     "Error creating ticket"}

FailureReports == {i \in 1..Len(console) : console[i].text \in FailureTexts}

\* the program ended on an error that make_request raised
EndedOnTransportError ==
    /\ pc = "exited"
    /\ mr_pc = "done"
    /\ mr_result.kind = "raise"

\* C9 as stated: every error make_request raises, in whichever step, reaches
\* the handlers of main_async, which print one message and exit non-zero.
C9_EveryErrorReachesTopLevel ==
    EndedOnTransportError =>
        /\ exit_status # 0
        /\ Cardinality(FailureReports) = 1
        /\ console[Len(console)].text \in {"API Error", "Unexpected Error"}

\* C9 as amended: an error make_request raises ends the program with status
\* 1 before any further step; raised by the workspace fetch, the ticket-field
\* fetch or the ticket creation it reaches the handlers of main_async, which
\* print one message; raised by a user lookup it is caught by get_user_info,
\* which prints it and returns None, and main_async prints a second message.
C9_ErrorsEndTheRun ==
    /\ (mr_result.kind = "raise" /\ pc # "exited") =>
          /\ mr_pc = "done"
          /\ pc = (CASE last_issued = "requesters" -> "requester"
                     [] last_issued = "agents" -> "agent"
                     [] last_issued = "workspaces" -> "workspaces"
                     [] last_issued = "ticket_fields" -> "ticket_fields"
                     [] last_issued = "tickets" -> "create")
    /\ EndedOnTransportError =>
          /\ exit_status = 1
          /\ IF last_issued \in {"requesters", "agents"}
               THEN /\ Cardinality(FailureReports) = 2
                    /\ console[Len(console) - 1].text = "Error looking up user"
                    /\ console[Len(console)].text = "Unable to find user in Freshservice."
               ELSE /\ Cardinality(FailureReports) = 1
                    /\ console[Len(console)].text \in {"API Error", "Unexpected Error"}

C9_Witness ==
    /\ EndedOnTransportError
    /\ last_issued = "tickets"
    /\ mr_result.why = "exhausted"
    /\ console[Len(console)].text = "API Error"

\* C10: an interrupt, at whichever step it arrives, ends the program with
\* status 0 through the handler of main_async.
C10_InterruptExitsCleanly ==
    interrupted =>
        /\ pc = "exited"
        /\ exit_status = 0
        /\ console[Len(console)].text = "Operation cancelled by user."

====
